---- MODULE Spec2Model ----
(***************************************************************************)
(* Model of Helpers/annotation_parsers.py: the VOC annotation extractor    *)
(* (get_tree_item, parse_voc_file), the normalizer (adjust_frame) and the  *)
(* cached folder aggregator (parse_voc_folder).                            *)
(*                                                                         *)
(* Values.  Text (an element's .text, a file name, a csv cell) is a        *)
(* sequence of one-character strings.  A float is a record [n, d] holding  *)
(* an exact fraction in lowest terms with d > 0, or inf = [1,0],           *)
(* -inf = [-1,0], nan = [0,0] (what numpy's division yields).  An xml      *)
(* element is [tag, text, kids], kids being the child elements in document *)
(* order.  A DataFrame is [columns, rows], each row a function from column *)
(* name to value.                                                          *)
(***************************************************************************)
EXTENDS Integers, Sequences, FiniteSets, TLC

(***************************************************************************)
(* Python values                                                           *)
(***************************************************************************)
None == [kind |-> "none"]

Raise(exc, msg) == [kind |-> "raise", exc |-> exc, msg |-> msg]

Ok(v) == [kind |-> "ok", value |-> v]

Abs(i) == IF i < 0 THEN -i ELSE i

Sign(i) == IF i < 0 THEN -1 ELSE IF i = 0 THEN 0 ELSE 1

RECURSIVE Gcd(_, _)
Gcd(a, b) == IF b = 0 THEN a ELSE Gcd(b, a % b)

RECURSIVE Pow10(_)
Pow10(k) == IF k = 0 THEN 1 ELSE 10 * Pow10(k - 1)

Digits == <<"0", "1", "2", "3", "4", "5", "6", "7", "8", "9">>

IsDigit(c) == \E i \in 1..10 : Digits[i] = c

DigitVal(c) == (CHOOSE i \in 1..10 : Digits[i] = c) - 1

IsDigits(t) == Len(t) > 0 /\ \A i \in 1..Len(t) : IsDigit(t[i])

RECURSIVE DigitsVal(_)
DigitsVal(t) ==
    IF t = <<>> THEN 0
    ELSE 10 * DigitsVal(SubSeq(t, 1, Len(t) - 1)) + DigitVal(t[Len(t)])

RECURSIVE NatToText(_)
NatToText(i) ==
    IF i < 10 THEN <<Digits[i + 1]>>
    ELSE NatToText(i \div 10) \o <<Digits[(i % 10) + 1]>>

\* str(int): the decimal digits, a leading "-" for a negative number
IntToText(i) == IF i < 0 THEN <<"-">> \o NatToText(-i) ELSE NatToText(i)

(***************************************************************************)
(* Floats                                                                  *)
(***************************************************************************)
NaN == [n |-> 0, d |-> 0]

IsNaN(f) == f.n = 0 /\ f.d = 0

IsFinite(f) == f.d # 0

\* int64 / int64 as numpy divides: a float; x/0 is inf, -inf or nan, no error
TrueDiv(a, b) ==
    IF b = 0 THEN [n |-> Sign(a), d |-> 0]
    ELSE LET g == Gcd(Abs(a), Abs(b))
         IN  [n |-> Sign(b) * (a \div g), d |-> Abs(b) \div g]

IntToFloat(i) == [n |-> i, d |-> 1]

\* float >= 0 (false for nan)
FloatGeqZero(f) == ~IsNaN(f) /\ f.n >= 0

\* astype(int) of a finite float: truncation toward zero
FloatToInt(f) == Sign(f.n) * (Abs(f.n) \div f.d)

Unsigned(t) == IF t # <<>> /\ t[1] = "-" THEN Tail(t) ELSE t

DotAt(t) == IF \E i \in 1..Len(t) : t[i] = "." THEN CHOOSE i \in 1..Len(t) : t[i] = "." ELSE 0

IsIntText(t) == IsDigits(Unsigned(t))

IsDecimalText(t) ==
    LET u == Unsigned(t)
        k == DotAt(u)
    IN  /\ k > 1
        /\ IsDigits(SubSeq(u, 1, k - 1))
        /\ k < Len(u) => IsDigits(SubSeq(u, k + 1, Len(u)))

IsFloatText(t) ==
    \/ IsIntText(t)
    \/ IsDecimalText(t)
    \/ Unsigned(t) = <<"i", "n", "f">>

TextToInt(t) == (IF t[1] = "-" THEN -1 ELSE 1) * DigitsVal(Unsigned(t))

\* float(text): an optional sign, digits, an optional fraction; or inf
TextToFloat(t) ==
    LET u == Unsigned(t)
        s == IF t[1] = "-" THEN -1 ELSE 1
        k == DotAt(u)
    IN  IF u = <<"i", "n", "f">> THEN [n |-> s, d |-> 0]
        ELSE IF k = 0 THEN IntToFloat(s * DigitsVal(u))
        ELSE LET whole == DigitsVal(SubSeq(u, 1, k - 1))
                 frac == SubSeq(u, k + 1, Len(u))
                 p == Pow10(Len(frac))
             IN  TrueDiv(s * (whole * p + DigitsVal(frac)), p)

RECURSIVE FracDigits(_, _, _)
FracDigits(r, d, left) ==
    IF r = 0 \/ left = 0 THEN <<>>
    ELSE <<Digits[((10 * r) \div d) + 1]>> \o FracDigits((10 * r) % d, d, left - 1)

\* repr(float) as to_csv writes it: at least one fractional digit, at most
\* 17 significant ones; nan is written as the empty cell
FloatToText(f) ==
    IF IsNaN(f) THEN <<>>
    ELSE IF f.d = 0 THEN (IF f.n < 0 THEN <<"-">> ELSE <<>>) \o <<"i", "n", "f">>
    ELSE LET a == Abs(f.n)
             r == a % f.d
         IN  (IF f.n < 0 THEN <<"-">> ELSE <<>>)
             \o NatToText(a \div f.d) \o <<".">>
             \o (IF r = 0 THEN <<"0">> ELSE FracDigits(r, f.d, 17))

(***************************************************************************)
(* xml.etree elements                                                      *)
(***************************************************************************)
Elem(tag, text, kids) == [tag |-> tag, text |-> text, kids |-> kids]

\* a Python list
List(items) == [items |-> items]

\* Element.findall(tag): the list of the direct children with that tag, in
\* document order
FindAll(parent, tag) == List(SelectSeq(parent.kids, LAMBDA e : e.tag = tag))

\* Element.find(tag): the first such child, or None
Find(parent, tag) ==
    IF FindAll(parent, tag).items = <<>> THEN None
    ELSE Head(FindAll(parent, tag).items)

\* the voc configuration json.load returns (Config/voc_conf.json)
tags ==
    [Tree |-> [Path |-> "path"],
     Size |-> [SizeTag |-> "size", Width |-> "width", Height |-> "height"],
     Object |-> [ObjectTag |-> "object", ObjectName |-> "name",
                 ObjectBox |-> [ObjectBoxTag |-> "bndbox", X0 |-> "xmin",
                                Y0 |-> "ymin", X1 |-> "xmax", Y1 |-> "ymax"]]]

(***************************************************************************)
(* get_tree_item                                                           *)
(***************************************************************************)
\* the mutant of get_tree_item: a missing node is returned as an empty element
\* instead of raising
get_tree_item_never_raises(parent, tag, file_path, find_all) ==
    LET target == IF find_all THEN FindAll(parent, tag) ELSE Find(parent, tag)
    IN  IF target = None
        THEN Ok(Elem(tag, <<"0">>, <<>>))
        ELSE Ok(target)

get_tree_item(parent, tag, file_path, find_all) ==
    LET target == IF find_all THEN FindAll(parent, tag) ELSE Find(parent, tag)
    IN  IF target = None
        THEN Raise("ValueError", <<"Could not find", tag, file_path>>)
        ELSE Ok(target)

(***************************************************************************)
(* parse_voc_file                                                          *)
(***************************************************************************)
\* one pass of the loop body (lines 49-55): the record of one object, or the
\* first exception a lookup raises
ObjectRecord(item, file_path, image_path, image_width, image_height) ==
    LET box == tags.Object.ObjectBox
        name == get_tree_item(item, tags.Object.ObjectName, file_path, FALSE)
        box_item == get_tree_item(item, box.ObjectBoxTag, file_path, FALSE)
        x0 == get_tree_item(box_item.value, box.X0, file_path, FALSE)
        y0 == get_tree_item(box_item.value, box.Y0, file_path, FALSE)
        x1 == get_tree_item(box_item.value, box.X1, file_path, FALSE)
        y1 == get_tree_item(box_item.value, box.Y1, file_path, FALSE)
    IN  IF name.kind = "raise" THEN name
        ELSE IF box_item.kind = "raise" THEN box_item
        ELSE IF x0.kind = "raise" THEN x0
        ELSE IF y0.kind = "raise" THEN y0
        ELSE IF x1.kind = "raise" THEN x1
        ELSE IF y1.kind = "raise" THEN y1
        ELSE Ok(<<image_path, name.value.text, image_width, image_height,
                  x0.value.text, y0.value.text, x1.value.text, y1.value.text>>)

\* the mutant of ObjectLoop: each record is put in front of the earlier ones
RECURSIVE ObjectLoopPrepending(_, _, _, _, _, _)
ObjectLoopPrepending(items, image_data, file_path, image_path, image_width, image_height) ==
    IF items = <<>> THEN Ok(image_data)
    ELSE LET r == ObjectRecord(Head(items), file_path, image_path,
                               image_width, image_height)
         IN  IF r.kind = "raise" THEN r
             ELSE ObjectLoopPrepending(Tail(items), <<r.value>> \o image_data, file_path,
                                       image_path, image_width, image_height)

RECURSIVE ObjectLoop(_, _, _, _, _, _)
ObjectLoop(items, image_data, file_path, image_path, image_width, image_height) ==
    IF items = <<>> THEN Ok(image_data)
    ELSE LET r == ObjectRecord(Head(items), file_path, image_path,
                               image_width, image_height)
         IN  IF r.kind = "raise" THEN r
             ELSE ObjectLoop(Tail(items), Append(image_data, r.value), file_path,
                             image_path, image_width, image_height)

\* the list of raw records of one annotation file, or the exception raised
parse_voc_file(file_path, tree) ==
    LET image_path == get_tree_item(tree, tags.Tree.Path, file_path, FALSE)
        size_item == get_tree_item(tree, tags.Size.SizeTag, file_path, FALSE)
        image_width == get_tree_item(size_item.value, tags.Size.Width, file_path, FALSE)
        image_height == get_tree_item(size_item.value, tags.Size.Height, file_path, FALSE)
        items == get_tree_item(tree, tags.Object.ObjectTag, file_path, TRUE)
    IN  IF image_path.kind = "raise" THEN image_path
        ELSE IF size_item.kind = "raise" THEN size_item
        ELSE IF image_width.kind = "raise" THEN image_width
        ELSE IF image_height.kind = "raise" THEN image_height
        ELSE IF items.kind = "raise" THEN items
        ELSE ObjectLoop(items.value.items, <<>>, file_path, image_path.value.text,
                        image_width.value.text, image_height.value.text)

(***************************************************************************)
(* DataFrames and the csv artifact                                         *)
(***************************************************************************)
frame_columns ==
    <<"Image Path", "Object Name", "Image Width", "Image Height",
      "X_min", "Y_min", "X_max", "Y_max">>

Range(s) == {s[i] : i \in 1..Len(s)}

\* pd.DataFrame(image_data, columns=...): every cell is the text of the record
DataFrame(image_data, columns) ==
    [columns |-> columns,
     dtypes |-> [c \in Range(columns) |-> "object"],
     rows |-> [i \in 1..Len(image_data) |->
                 [c \in Range(columns) |->
                    image_data[i][CHOOSE k \in 1..Len(columns) : columns[k] = c]]]]

Column(frame, c) == [i \in 1..Len(frame.rows) |-> frame.rows[i][c]]

\* frame[c] = values (an existing column is replaced, a new one is appended)
SetColumn(frame, c, dtype, values) ==
    [columns |-> IF c \in Range(frame.columns) THEN frame.columns
                 ELSE Append(frame.columns, c),
     dtypes |-> [k \in Range(frame.columns) \cup {c} |->
                   IF k = c THEN dtype ELSE frame.dtypes[k]],
     rows |-> [i \in 1..Len(frame.rows) |->
                 [k \in Range(frame.columns) \cup {c} |->
                    IF k = c THEN values[i] ELSE frame.rows[i][k]]]]

\* Series.drop_duplicates(): the distinct values in order of first appearance
RECURSIVE drop_duplicates(_)
drop_duplicates(s) ==
    IF s = <<>> THEN <<>>
    ELSE LET front == drop_duplicates(SubSeq(s, 1, Len(s) - 1))
         IN  IF s[Len(s)] \in Range(front) THEN front
             ELSE Append(front, s[Len(s)])

CellToText(v, dtype) ==
    IF dtype = "int64" THEN IntToText(v)
    ELSE IF dtype = "float64" THEN FloatToText(v)
    ELSE v

\* DataFrame.to_csv(index=False): a header row and one row of cells per row
to_csv(frame) ==
    [header |-> frame.columns,
     cells |-> [i \in 1..Len(frame.rows) |->
                  [k \in 1..Len(frame.columns) |->
                     CellToText(frame.rows[i][frame.columns[k]],
                                frame.dtypes[frame.columns[k]])]]]

\* the dtype pd.read_csv infers for a column of cells
InferDtype(cells) ==
    IF \A i \in 1..Len(cells) : IsIntText(cells[i]) THEN "int64"
    ELSE IF \A i \in 1..Len(cells) : cells[i] = <<>> \/ IsFloatText(cells[i])
         THEN "float64"
    ELSE "object"

TextToCell(t, dtype) ==
    IF dtype = "int64" THEN TextToInt(t)
    ELSE IF dtype = "float64" THEN (IF t = <<>> THEN NaN ELSE TextToFloat(t))
    ELSE t

\* pd.read_csv(cache_path)
read_csv(csv) ==
    LET dtype(k) == InferDtype([i \in 1..Len(csv.cells) |-> csv.cells[i][k]])
    IN  [columns |-> csv.header,
         dtypes |-> [c \in Range(csv.header) |->
                       dtype(CHOOSE k \in 1..Len(csv.header) : csv.header[k] = c)],
         rows |-> [i \in 1..Len(csv.cells) |->
                     [c \in Range(csv.header) |->
                        LET k == CHOOSE j \in 1..Len(csv.header) : csv.header[j] = c
                        IN  TextToCell(csv.cells[i][k], dtype(k))]]]

(***************************************************************************)
(* adjust_frame                                                            *)
(***************************************************************************)
\* lines 70-71: astype(float).astype(int) over frame.columns[2:], column by
\* column; a text that is no number, or inf, raises
RECURSIVE CoerceColumns(_, _)
CoerceColumns(frame, items) ==
    IF items = <<>> THEN Ok(frame)
    ELSE LET col == Column(frame, Head(items))
         IN  IF \E i \in 1..Len(col) : ~IsFloatText(col[i])
             THEN Raise("ValueError", <<"could not convert string to float">>)
             ELSE IF \E i \in 1..Len(col) : ~IsFinite(TextToFloat(col[i]))
             THEN Raise("OverflowError", <<"cannot convert float infinity to integer">>)
             ELSE CoerceColumns(
                      SetColumn(frame, Head(items), "int64",
                                [i \in 1..Len(col) |-> FloatToInt(TextToFloat(col[i]))]),
                      Tail(items))

\* the mutant of RelativeSize: the difference is taken the other way round
RelativeSizeSwapped(frame, hi, lo, dim) ==
    [i \in 1..Len(frame.rows) |->
       TrueDiv(frame.rows[i][lo] - frame.rows[i][hi], frame.rows[i][dim])]

\* lines 72-73
RelativeSize(frame, hi, lo, dim) ==
    [i \in 1..Len(frame.rows) |->
       TrueDiv(frame.rows[i][hi] - frame.rows[i][lo], frame.rows[i][dim])]

\* the mutant of AssignIds: object_id is not counted up
AssignIdsWithoutIncrement(frame, names, object_id) ==
    SetColumn(frame, "Object ID", "float64",
              [i \in 1..Len(frame.rows) |-> IntToFloat(object_id)])

\* lines 74-76: the loop over the distinct names, object_id counting up
RECURSIVE AssignIds(_, _, _)
AssignIds(frame, names, object_id) ==
    IF names = <<>> THEN frame
    ELSE AssignIds(
             SetColumn(frame, "Object ID", "float64",
                       [i \in 1..Len(frame.rows) |->
                          IF frame.rows[i]["Object Name"] = Head(names)
                          THEN IntToFloat(object_id)
                          ELSE IF "Object ID" \in Range(frame.columns)
                               THEN frame.rows[i]["Object ID"]
                               ELSE NaN]),
             Tail(names), object_id + 1)

\* the frame adjust_frame returns and writes, or the exception raised
adjust_frame(frame) ==
    LET coerced == CoerceColumns(frame, SubSeq(frame.columns, 3, Len(frame.columns)))
        f1 == coerced.value
        f2 == SetColumn(f1, "Relative Width", "float64",
                        RelativeSize(f1, "X_max", "X_min", "Image Width"))
        f3 == SetColumn(f2, "Relative Height", "float64",
                        RelativeSize(f2, "Y_max", "Y_min", "Image Height"))
    IN  IF coerced.kind = "raise" THEN coerced
        ELSE Ok(AssignIds(f3, drop_duplicates(Column(f3, "Object Name")), 1))

(***************************************************************************)
(* Inputs: annotation documents                                            *)
(***************************************************************************)
MaxEntries == 2

RequiredFileFields == {"path", "size", "width", "height"}

RequiredObjectFields == {"name", "bndbox", "xmin", "ymin", "xmax", "ymax"}

\* box = <<xmin, ymin, xmax, ymax>> as texts; `lacks` is a field left out
ObjectElem(name, box, lacks) ==
    LET corner(tag, text) == IF lacks = tag THEN <<>> ELSE <<Elem(tag, text, <<>>)>>
    IN  Elem("object", <<>>,
             (IF lacks = "name" THEN <<>> ELSE <<Elem("name", name, <<>>)>>)
             \o (IF lacks = "bndbox" THEN <<>>
                 ELSE <<Elem("bndbox", <<>>,
                             corner("xmin", box[1]) \o corner("ymin", box[2])
                             \o corner("xmax", box[3]) \o corner("ymax", box[4]))>>))

Annotation(path, width, height, objects, lacks) ==
    Elem("annotation", <<>>,
         (IF lacks = "path" THEN <<>> ELSE <<Elem("path", path, <<>>)>>)
         \o (IF lacks = "size" THEN <<>>
             ELSE <<Elem("size", <<>>,
                         (IF lacks = "width" THEN <<>> ELSE <<Elem("width", width, <<>>)>>)
                         \o (IF lacks = "height" THEN <<>>
                             ELSE <<Elem("height", height, <<>>)>>))>>)
         \o objects)

cat == <<"c", "a", "t">>

dog == <<"d", "o", "g">>

bird == <<"b", "i", "r", "d">>

seven == <<"7">>

img1 == <<"i", "m", "g", "1", ".", "j", "p", "g">>

img2 == <<"i", "m", "g", "2", ".", "j", "p", "g">>

BoxA == <<IntToText(10), IntToText(20), IntToText(50), IntToText(120)>>

\* xmax is written with a fraction, as some annotation tools do
BoxB == <<IntToText(30), IntToText(40), <<"8", "0", ".", "7">>, IntToText(90)>>

\* xmax = xmin: a box of width 0
BoxFlat == <<IntToText(10), IntToText(20), IntToText(10), IntToText(120)>>

\* xmax < xmin and ymax < ymin: an inverted box
BoxInverted == <<IntToText(50), IntToText(120), IntToText(10), IntToText(20)>>

xml(stem) == stem \o <<".", "x", "m", "l">>

Entry(file_name, tree) == [file_name |-> file_name, tree |-> tree]

\* a.xml: one cat in an image of 100 x 200
EntryA ==
    Entry(xml(<<"a">>),
          Annotation(img1, IntToText(100), IntToText(200),
                     <<ObjectElem(cat, BoxA, "none")>>, "none"))

\* b.xml: a dog, then a cat
EntryB ==
    Entry(xml(<<"b">>),
          Annotation(img2, IntToText(100), IntToText(200),
                     <<ObjectElem(dog, BoxB, "none"),
                       ObjectElem(cat, BoxA, "none")>>, "none"))

GoodEntries == {EntryA, EntryB}

\* an image width of 0: relative widths inf (BoxA) and nan (BoxFlat); the
\* class is labelled by a number
ZeroEntries ==
    { Entry(xml(<<"z">>),
            Annotation(img1, IntToText(0), IntToText(200),
                       <<ObjectElem(seven, BoxA, "none"),
                         ObjectElem(seven, BoxFlat, "none")>>, "none")) }

\* well-formed files without a single object
ObjectFreeEntries ==
    { Entry(xml(<<"e">>),
            Annotation(img1, IntToText(100), IntToText(200), <<>>, "none")) }

\* files lacking one required field: of the file, or of the second object
LackingEntries ==
    { Entry(xml(<<"w">>),
            Annotation(img1, IntToText(100), IntToText(200),
                       <<ObjectElem(cat, BoxA, "none")>>, f)) :
        f \in RequiredFileFields }
    \cup
    { Entry(xml(<<"o">>),
            Annotation(img2, IntToText(100), IntToText(200),
                       <<ObjectElem(cat, BoxA, "none"),
                         ObjectElem(dog, BoxB, f)>>, "none")) :
        f \in RequiredObjectFields }

\* a file without the annotation suffix; it is never opened
OtherEntries ==
    { Entry(<<"r", "e", "a", "d", "m", "e", ".", "t", "x", "t">>,
            Annotation(img1, IntToText(100), IntToText(200), <<>>, "size")) }

Entries ==
    GoodEntries \cup ZeroEntries \cup ObjectFreeEntries \cup LackingEntries
    \cup OtherEntries

\* the files written while invocations run
ChangingEntries ==
    {EntryA} \cup ZeroEntries \cup ObjectFreeEntries
    \cup { Entry(xml(<<"w">>),
                 Annotation(img1, IntToText(100), IntToText(200),
                            <<ObjectElem(cat, BoxA, "none")>>, "width")) }

(***************************************************************************)
(* State                                                                   *)
(***************************************************************************)
VARIABLES
    folder,      \* the annotation folder: [exists, entries (in listing order)]
    cache,       \* ../Caches: cache file name -> the csv stored, or None
    pc,          \* per invocation: where parse_voc_folder stands
    cache_file,  \* per invocation: the cache_file argument
    frame,       \* per invocation: the raw frame of line 106, or None
    result,      \* per invocation: what the last call returned or raised
    hit,         \* per invocation: the last call returned at line 97
    listed,      \* per invocation: the last call ran os.listdir (line 101)
    first,       \* per cache file: what the call that created the artifact returned
    writer,      \* per cache file: who wrote it and what they returned, in order
    call         \* a single application of one function: [fn, in, out]

vars ==
    <<folder, cache, pc, cache_file, frame, result, hit, listed, first, writer, call>>

Procs == {1, 2}

CacheFiles == {"data_set_labels.csv", "other.csv"}

folder_path == <<"l", "b", "l">>

\* os.path.join(folder_path, file_name)
JoinPath(dir, file_name) == dir \o <<"/">> \o file_name

\* str.endswith
EndsWith(t, suffix) ==
    Len(t) >= Len(suffix) /\ SubSeq(t, Len(t) - Len(suffix) + 1, Len(t)) = suffix

(***************************************************************************)
(* parse_voc_folder                                                        *)
(***************************************************************************)
\* lines 101-105: the loop over the listing; the records of all matching
\* files in listing order, or the first exception parse_voc_file raises
RECURSIVE FolderLoop(_, _)
FolderLoop(entries, image_data) ==
    IF entries = <<>> THEN Ok(image_data)
    ELSE IF EndsWith(Head(entries).file_name, <<".", "x", "m", "l">>)
    THEN LET image_labels == parse_voc_file(JoinPath(folder_path, Head(entries).file_name),
                                            Head(entries).tree)
         IN  IF image_labels.kind = "raise" THEN image_labels
             ELSE FolderLoop(Tail(entries), image_data \o image_labels.value)
    ELSE FolderLoop(Tail(entries), image_data)

\* the mutants of Lookup: the cache is looked up before the folder is
\* asserted; the cache is never consulted
LookupCacheFirst(dir, c, k) ==
    IF c[k] # None THEN "hit" ELSE IF ~dir.exists THEN "assert" ELSE "miss"

LookupNeverHits(dir, c, k) == IF ~dir.exists THEN "assert" ELSE "miss"

\* lines 94-96: which way parse_voc_folder goes: the assertion fails, the
\* artifact exists, or it does not
Lookup(dir, c, k) ==
    IF ~dir.exists THEN "assert" ELSE IF c[k] # None THEN "hit" ELSE "miss"

\* the mutant of IsEmpty: the emptiness check is left out
IsEmptyNever(f) == FALSE

\* line 107: frame.empty
IsEmpty(f) == f.rows = <<>>

\* the mutant of WriteArtifact: an existing artifact is kept
WriteArtifactIfAbsent(c, k, csv) == IF c[k] = None THEN [c EXCEPT ![k] = csv] ELSE c

\* line 77: the csv is written to the cache path, replacing what is there
WriteArtifact(c, k, csv) == [c EXCEPT ![k] = csv]

\* what a call hands back: what it returns or raises, the cache directory it
\* leaves, and whether it listed the folder
Return(r, c, listing) == [result |-> r, cache |-> c, listed |-> listing]

\* lines 109-110: adjust_frame's result is returned; its write (line 77) has
\* happened unless it raised
Adjusted(c, k, adjusted) ==
    IF adjusted.kind = "raise" THEN Return(adjusted, c, TRUE)
    ELSE Return(adjusted, WriteArtifact(c, k, to_csv(adjusted.value)), TRUE)

\* lines 107-109: the emptiness check on the raw frame, then adjust_frame
Framed(c, k, raw) ==
    IF IsEmpty(raw)
    THEN Return(Raise("ValueError", <<"No labels were found in", folder_path>>), c, TRUE)
    ELSE Adjusted(c, k, adjust_frame(raw))

\* lines 101-106: an exception of the loop leaves the call, else the raw
\* frame is made of the collected records
Listed(c, k, image_data) ==
    IF image_data.kind = "raise" THEN Return(image_data, c, TRUE)
    ELSE Framed(c, k, DataFrame(image_data.value, frame_columns))

\* lines 94-110 run without interruption on folder dir and cache directory c
parse_voc_folder(dir, c, k) ==
    IF Lookup(dir, c, k) = "assert" THEN Return(Raise("AssertionError", <<>>), c, FALSE)
    ELSE IF Lookup(dir, c, k) = "hit" THEN Return(Ok(read_csv(c[k])), c, FALSE)
    ELSE Listed(c, k, FolderLoop(dir.entries, <<>>))

\* lines 94-97: the assertion on the folder, then the cache lookup
Call(p, k) ==
    /\ pc[p] \in {"idle", "done"}
    /\ cache_file' = [cache_file EXCEPT ![p] = k]
    /\ frame' = [frame EXCEPT ![p] = None]
    /\ listed' = [listed EXCEPT ![p] = FALSE]
    /\ IF Lookup(folder, cache, k) = "assert"
       THEN /\ result' = [result EXCEPT ![p] = Raise("AssertionError", <<>>)]
            /\ hit' = [hit EXCEPT ![p] = FALSE]
            /\ pc' = [pc EXCEPT ![p] = "done"]
       ELSE IF Lookup(folder, cache, k) = "hit"
       THEN /\ result' = [result EXCEPT ![p] = Ok(read_csv(cache[k]))]
            /\ hit' = [hit EXCEPT ![p] = TRUE]
            /\ pc' = [pc EXCEPT ![p] = "done"]
       ELSE /\ result' = [result EXCEPT ![p] = None]
            /\ hit' = [hit EXCEPT ![p] = FALSE]
            /\ pc' = [pc EXCEPT ![p] = "scan"]
    /\ UNCHANGED <<folder, cache, first, writer, call>>

\* lines 98-108: listing, extraction, the raw frame and the emptiness check
Scan(p) ==
    /\ pc[p] = "scan"
    /\ IF ~folder.exists
       THEN /\ result' = [result EXCEPT ![p] = Raise("FileNotFoundError", <<>>)]
            /\ pc' = [pc EXCEPT ![p] = "done"]
            /\ UNCHANGED <<frame, listed>>
       ELSE LET image_data == FolderLoop(folder.entries, <<>>)
            IN  /\ listed' = [listed EXCEPT ![p] = TRUE]
                /\ IF image_data.kind = "raise"
                   THEN /\ result' = [result EXCEPT ![p] = image_data]
                        /\ pc' = [pc EXCEPT ![p] = "done"]
                        /\ UNCHANGED frame
                   ELSE IF IsEmpty(DataFrame(image_data.value, frame_columns))
                   THEN /\ result' = [result EXCEPT ![p] =
                                        Raise("ValueError", <<"No labels were found in", folder_path>>)]
                        /\ pc' = [pc EXCEPT ![p] = "done"]
                        /\ UNCHANGED frame
                   ELSE /\ frame' = [frame EXCEPT ![p] =
                                       DataFrame(image_data.value, frame_columns)]
                        /\ pc' = [pc EXCEPT ![p] = "adjust"]
                        /\ UNCHANGED result
    /\ UNCHANGED <<folder, cache, cache_file, hit, first, writer, call>>

\* lines 109-110 with adjust_frame's write of the artifact (line 77)
Adjust(p) ==
    /\ pc[p] = "adjust"
    /\ LET r == adjust_frame(frame[p])
           k == cache_file[p]
       IN  /\ result' = [result EXCEPT ![p] = r]
           /\ IF r.kind = "raise"
              THEN UNCHANGED <<cache, first, writer>>
              ELSE /\ cache' = WriteArtifact(cache, k, to_csv(r.value))
                   /\ first' = [first EXCEPT ![k] = IF cache[k] = None THEN r ELSE @]
                   /\ writer' = [writer EXCEPT ![k] =
                                    Append(@, [proc |-> p, returned |-> r.value])]
    /\ frame' = [frame EXCEPT ![p] = None]
    /\ pc' = [pc EXCEPT ![p] = "done"]
    /\ UNCHANGED <<folder, cache_file, hit, listed, call>>

(***************************************************************************)
(* The environment: the annotation folder and the cache directory          *)
(***************************************************************************)
\* a file is written into the folder (the listing returns it last)
AddFile(e) ==
    /\ folder.exists
    /\ Len(folder.entries) < MaxEntries
    /\ \A i \in 1..Len(folder.entries) : folder.entries[i].file_name # e.file_name
    /\ folder' = [folder EXCEPT !.entries = Append(@, e)]
    /\ UNCHANGED <<cache, pc, cache_file, frame, result, hit, listed, first, writer, call>>

RemoveFile(i) ==
    /\ folder.exists
    /\ i \in 1..Len(folder.entries)
    /\ folder' = [folder EXCEPT !.entries =
                    SubSeq(@, 1, i - 1) \o SubSeq(@, i + 1, Len(@))]
    /\ UNCHANGED <<cache, pc, cache_file, frame, result, hit, listed, first, writer, call>>

MakeFolder ==
    /\ ~folder.exists
    /\ folder' = [exists |-> TRUE, entries |-> <<>>]
    /\ UNCHANGED <<cache, pc, cache_file, frame, result, hit, listed, first, writer, call>>

RemoveFolder ==
    /\ folder.exists
    /\ folder' = [exists |-> FALSE, entries |-> <<>>]
    /\ UNCHANGED <<cache, pc, cache_file, frame, result, hit, listed, first, writer, call>>

\* the external actor invalidating the cache by deleting the artifact
DeleteArtifact(k) ==
    /\ cache[k] # None
    /\ cache' = [cache EXCEPT ![k] = None]
    /\ first' = [first EXCEPT ![k] = None]
    /\ writer' = [writer EXCEPT ![k] = <<>>]
    /\ UNCHANGED <<folder, pc, cache_file, frame, result, hit, listed, call>>

NoCall == [fn |-> "none"]

Init ==
    /\ folder = [exists |-> TRUE, entries |-> <<>>]
    /\ cache = [k \in CacheFiles |-> None]
    /\ pc = [p \in Procs |-> "idle"]
    /\ cache_file = [p \in Procs |-> "data_set_labels.csv"]
    /\ frame = [p \in Procs |-> None]
    /\ result = [p \in Procs |-> None]
    /\ hit = [p \in Procs |-> FALSE]
    /\ listed = [p \in Procs |-> FALSE]
    /\ first = [k \in CacheFiles |-> None]
    /\ writer = [k \in CacheFiles |-> <<>>]
    /\ call = NoCall

\* one invocation at a time (the single-threaded use the program is written for)
Next ==
    \/ \E k \in CacheFiles : Call(1, k)
    \/ Scan(1)
    \/ Adjust(1)
    \/ \E e \in ChangingEntries : AddFile(e)
    \/ \E i \in 1..MaxEntries : RemoveFile(i)
    \/ MakeFolder
    \/ RemoveFolder
    \/ \E k \in CacheFiles : DeleteArtifact(k)

Spec == Init /\ [][Next]_vars

(***************************************************************************)
(* Two concurrent invocations (two processes sharing ../Caches)            *)
(***************************************************************************)
ConcNext ==
    \/ \E p \in Procs : Call(p, "data_set_labels.csv")
    \/ \E p \in Procs : Scan(p)
    \/ \E p \in Procs : Adjust(p)
    \/ \E e \in GoodEntries : AddFile(e)
    \/ \E i \in 1..MaxEntries : RemoveFile(i)
    \/ DeleteArtifact("data_set_labels.csv")

SpecConc == Init /\ [][ConcNext]_vars

(***************************************************************************)
(* Single applications of get_tree_item, parse_voc_file and adjust_frame   *)
(***************************************************************************)
MaxObjects == 2

MaxRows == 3

RECURSIVE SeqsUpTo(_, _)
SeqsUpTo(S, n) ==
    IF n = 0 THEN {<<>>}
    ELSE SeqsUpTo(S, n - 1) \cup
         { Append(q, x) : q \in { r \in SeqsUpTo(S, n - 1) : Len(r) = n - 1 }, x \in S }

\* the object entries of the documents parse_voc_file is applied to
ObjectElems ==
    { ObjectElem(name, box, "none") : name \in {cat, dog}, box \in {BoxA, BoxB} }
    \cup { ObjectElem(dog, BoxB, f) : f \in RequiredObjectFields }

Documents ==
    { Annotation(img1, IntToText(100), h, objects, f) :
        h \in {IntToText(200), IntToText(0)},
        objects \in SeqsUpTo(ObjectElems, MaxObjects),
        f \in {"none"} \cup RequiredFileFields }

SubElements(S) == UNION { Range(e.kids) : e \in S }

\* the elements get_tree_item is applied to: every element of the entries
Parents ==
    LET trees == { e.tree : e \in Entries }
    IN  trees \cup SubElements(trees) \cup SubElements(SubElements(trees))

Tags == {"annotation", "object"} \cup RequiredFileFields \cup RequiredObjectFields

\* the raw records adjust_frame is applied to: <<width, height, box>> is an
\* ordinary image, one of negative width, one of size 0 x 0, an inverted box
Geometries ==
    { <<IntToText(100), IntToText(200), BoxA>>,
      <<IntToText(-100), IntToText(200), BoxB>>,
      <<IntToText(0), IntToText(0), BoxFlat>>,
      <<IntToText(100), IntToText(200), BoxInverted>> }

Records ==
    { <<img1, name, g[1], g[2], g[3][1], g[3][2], g[3][3], g[3][4]>> :
        name \in {cat, dog, bird}, g \in Geometries }

DistinctNames(l) ==
    \A i, j \in 1..Len(l) : i # j => l[i].file_name # l[j].file_name

\* the folders parse_voc_folder is applied to: none, or a listing of at most
\* MaxEntries entries with distinct file names
Folders ==
    { [exists |-> FALSE, entries |-> <<>>] }
    \cup { [exists |-> TRUE, entries |-> l] :
             l \in { m \in SeqsUpTo(Entries, MaxEntries) : DistinctNames(m) } }

\* the artifact it finds: none, or the one an earlier call left
Artifacts ==
    { None,
      to_csv(adjust_frame(DataFrame(<<<<img2, bird, IntToText(100), IntToText(200),
                                        BoxA[1], BoxA[2], BoxA[3], BoxA[4]>>>>,
                                    frame_columns)).value) }

Pending(fn, in) == [fn |-> fn, in |-> in, out |-> None]

Applications ==
    { Pending("get_tree_item", [parent |-> e, tag |-> t, find_all |-> b]) :
        e \in Parents, t \in Tags, b \in BOOLEAN }
    \cup { Pending("parse_voc_file", [tree |-> d]) : d \in Documents }
    \cup { Pending("adjust_frame", [frame |-> DataFrame(r, frame_columns)]) :
             r \in SeqsUpTo(Records, MaxRows) \ {<<>>} }
    \cup { Pending("parse_voc_folder", [folder |-> d, artifact |-> a]) :
             d \in Folders, a \in Artifacts }

file_a == JoinPath(folder_path, xml(<<"a">>))

PureInit ==
    /\ folder = [exists |-> TRUE, entries |-> <<>>]
    /\ cache = [k \in CacheFiles |-> None]
    /\ pc = [p \in Procs |-> "idle"]
    /\ cache_file = [p \in Procs |-> "data_set_labels.csv"]
    /\ frame = [p \in Procs |-> None]
    /\ result = [p \in Procs |-> None]
    /\ hit = [p \in Procs |-> FALSE]
    /\ listed = [p \in Procs |-> FALSE]
    /\ first = [k \in CacheFiles |-> None]
    /\ writer = [k \in CacheFiles |-> <<>>]
    /\ call \in Applications

system == <<folder, cache, pc, cache_file, frame, result, hit, listed, first, writer>>

ApplyGetTreeItem ==
    /\ call.fn = "get_tree_item" /\ call.out = None
    /\ call' = [call EXCEPT !.out =
                  get_tree_item(call.in.parent, call.in.tag, file_a, call.in.find_all)]
    /\ UNCHANGED system

ApplyParseVocFile ==
    /\ call.fn = "parse_voc_file" /\ call.out = None
    /\ call' = [call EXCEPT !.out = parse_voc_file(file_a, call.in.tree)]
    /\ UNCHANGED system

ApplyAdjustFrame ==
    /\ call.fn = "adjust_frame" /\ call.out = None
    /\ call' = [call EXCEPT !.out = adjust_frame(call.in.frame)]
    /\ UNCHANGED system

ApplyParseVocFolder ==
    /\ call.fn = "parse_voc_folder" /\ call.out = None
    /\ call' = [call EXCEPT !.out =
                  LET k == "data_set_labels.csv"
                      r == parse_voc_folder(call.in.folder,
                                            [c \in CacheFiles |-> call.in.artifact], k)
                  IN  [result |-> r.result, artifact |-> r.cache[k], listed |-> r.listed]]
    /\ UNCHANGED system

PureNext ==
    ApplyGetTreeItem \/ ApplyParseVocFile \/ ApplyAdjustFrame \/ ApplyParseVocFolder

SpecPure == PureInit /\ [][PureNext]_vars

(***************************************************************************)
(* What the claims speak of, read off the inputs                           *)
(***************************************************************************)
\* the positions of the children of e with the given tag
Children(e, tag) == { i \in 1..Len(e.kids) : e.kids[i].tag = tag }

\* the j-th smallest member of a set of positions
Nth(S, j) == CHOOSE i \in S : Cardinality({ x \in S : x <= i }) = j

Child(e, tag) == e.kids[Nth(Children(e, tag), 1)]

Has(e, tag) == Children(e, tag) # {}

ObjectLacksField(o) ==
    \/ ~Has(o, "name")
    \/ ~Has(o, "bndbox")
    \/ \E c \in {"xmin", "ymin", "xmax", "ymax"} : ~Has(Child(o, "bndbox"), c)

FileLacksField(tree) ==
    \/ ~Has(tree, "path")
    \/ ~Has(tree, "size")
    \/ ~Has(Child(tree, "size"), "width")
    \/ ~Has(Child(tree, "size"), "height")
    \/ \E i \in Children(tree, "object") : ObjectLacksField(tree.kids[i])

NumObjects(tree) == Cardinality(Children(tree, "object"))

\* the record of the j-th object entry of a well-formed document
ExpectedRecord(tree, j) ==
    LET o == tree.kids[Nth(Children(tree, "object"), j)]
        size == Child(tree, "size")
        box == Child(o, "bndbox")
    IN  <<Child(tree, "path").text, Child(o, "name").text,
          Child(size, "width").text, Child(size, "height").text,
          Child(box, "xmin").text, Child(box, "ymin").text,
          Child(box, "xmax").text, Child(box, "ymax").text>>

IsAnnotationFile(e) == EndsWith(e.file_name, <<".", "x", "m", "l">>)

\* the positions in the listing of the annotation files that lack a field
LackingFiles(entries) ==
    { i \in 1..Len(entries) : IsAnnotationFile(entries[i]) /\ FileLacksField(entries[i].tree) }

NoObjects(entries) ==
    \A i \in 1..Len(entries) :
        IsAnnotationFile(entries[i]) => NumObjects(entries[i].tree) = 0

\* the spec's error kinds as the code raises them
MissingFieldError(r) ==
    r.kind = "raise" /\ r.exc = "ValueError" /\ r.msg # <<>> /\ r.msg[1] = "Could not find"

EmptyDatasetError(r) ==
    r.kind = "raise" /\ r.exc = "ValueError" /\ r.msg # <<>>
    /\ r.msg[1] = "No labels were found in"

InputNotFoundError(r) == r.kind = "raise" /\ r.exc = "AssertionError"

\* the locals of invocation p
Locals(p) == <<pc[p], cache_file[p], frame[p], result[p], hit[p], listed[p]>>

\* a step in which invocation p runs lines 94-97
CallStep(p) == pc[p] \in {"idle", "done"} /\ Locals(p)' # Locals(p)

(***************************************************************************)
(* Claims about parse_voc_folder (specification Spec)                      *)
(***************************************************************************)
\* C1: once a call has created the artifact of a cache file, a later call
\* with that cache file on an existing folder, whatever the folder holds,
\* returns a table whose content is the first call's, lists nothing,
\* extracts nothing and leaves the artifact as it is.
C1_CacheHitReturnsFirstResult ==
    [][\A p \in Procs :
         (CallStep(p) /\ folder.exists /\ first[cache_file'[p]] # None)
         => /\ hit'[p]
            /\ pc'[p] = "done"
            /\ result'[p].kind = "ok"
            /\ to_csv(result'[p].value) = to_csv(first[cache_file'[p]].value)
            /\ ~listed'[p]
            /\ frame'[p] = None
            /\ cache' = cache]_vars

\* a hit served while the folder is empty (a fresh scan would have failed)
C1_Witness ==
    /\ pc[1] = "done" /\ hit[1]
    /\ folder.exists /\ folder.entries = <<>>
    /\ result[1] = Ok(read_csv(cache[cache_file[1]]))
    /\ Len(result[1].value.rows) >= 2

\* C9: the folder is asserted before the cache is looked up: a call on a
\* folder that does not exist fails with the assertion error, also when the
\* artifact exists, and neither returns nor changes it; a hit is served only
\* for a folder that exists.
C9_FolderAssertedBeforeCache ==
    [][\A p \in Procs :
         CallStep(p) =>
           /\ ~folder.exists =>
                /\ InputNotFoundError(result'[p])
                /\ pc'[p] = "done"
                /\ ~hit'[p]
                /\ cache' = cache
           /\ hit'[p] => folder.exists]_vars

\* the assertion error raised while the artifact exists
C9_Witness ==
    /\ pc[1] = "done" /\ InputNotFoundError(result[1])
    /\ ~folder.exists
    /\ cache[cache_file[1]] # None

(***************************************************************************)
(* Claim about two concurrent invocations (specification SpecConc)         *)
(***************************************************************************)
\* C10: the existence test and the write are not atomic: invocations that
\* both found no artifact both write, and the artifact holds the table of
\* the one that wrote last, whatever the earlier ones returned.
C10_LastWriterWins ==
    \A k \in CacheFiles :
       /\ cache[k] = None <=> writer[k] = <<>>
       /\ writer[k] # <<>> => cache[k] = to_csv(writer[k][Len(writer[k])].returned)
       /\ \A i, j \in 1..Len(writer[k]) : i # j => writer[k][i].proc # writer[k][j].proc

\* both invocations wrote after the folder changed between their scans: the
\* first writer returned a table that differs from the artifact, which a
\* later call has returned
C10_Witness ==
    \E k \in CacheFiles, p \in Procs :
       /\ Len(writer[k]) = 2
       /\ to_csv(writer[k][1].returned) # cache[k]
       /\ to_csv(writer[k][2].returned) = cache[k]
       /\ pc[p] = "done" /\ hit[p] /\ cache_file[p] = k
       /\ to_csv(result[p].value) = cache[k]

(***************************************************************************)
(* Claims about single applications (specification SpecPure)               *)
(***************************************************************************)
Applied(fn) == call.fn = fn /\ call.out # None

\* a call of parse_voc_folder on an existing folder that found no artifact
AppliedOnMiss ==
    Applied("parse_voc_folder") /\ call.in.folder.exists /\ call.in.artifact = None

\* C2: on a miss, a folder without annotation files, or whose annotation
\* files hold no object entry, makes the call fail: no dataset is returned
\* and no artifact exists afterwards; the failure is the empty-dataset error
\* when no annotation file lacks a field.
C2_EmptyFolderFails ==
    (AppliedOnMiss /\ NoObjects(call.in.folder.entries))
    => /\ call.out.result.kind = "raise"
       /\ LackingFiles(call.in.folder.entries) = {} => EmptyDatasetError(call.out.result)
       /\ call.out.artifact = None

\* the failure over an object-free annotation file and a file of another suffix
C2_Witness ==
    /\ AppliedOnMiss
    /\ Len(call.in.folder.entries) = 2
    /\ call.in.folder.entries[1] \in ObjectFreeEntries
    /\ call.in.folder.entries[2] \in OtherEntries
    /\ EmptyDatasetError(call.out.result)
    /\ call.out.artifact = None

\* C3: on a miss, when an annotation file of the folder lacks a required
\* field, the call fails with the missing-field error of the first such file
\* in listing order, naming a required tag; nothing is returned and no
\* artifact is written, whatever was extracted before.
C3_MissingFieldAborts ==
    (AppliedOnMiss /\ LackingFiles(call.in.folder.entries) # {})
    => LET entries == call.in.folder.entries
           e == entries[Nth(LackingFiles(entries), 1)]
       IN  /\ MissingFieldError(call.out.result)
           /\ call.out.result.msg[2] \in RequiredFileFields \cup RequiredObjectFields
           /\ call.out.result.msg[3] = JoinPath(folder_path, e.file_name)
           /\ call.out.artifact = None

\* the failure on the second object of the second file, after a whole file
\* and one object were extracted
C3_Witness ==
    /\ AppliedOnMiss
    /\ Len(call.in.folder.entries) = 2
    /\ call.in.folder.entries[1] \in GoodEntries
    /\ call.in.folder.entries[2] \in LackingEntries
    /\ MissingFieldError(call.out.result)
    /\ call.out.result.msg[2] = "xmax"
    /\ call.out.result.msg[3] = JoinPath(folder_path, call.in.folder.entries[2].file_name)
    /\ call.out.artifact = None

ZeroDimension(row) == row["Image Width"] = 0 \/ row["Image Height"] = 0

NotFinite(row) ==
    ~IsFinite(row["Relative Width"]) \/ ~IsFinite(row["Relative Height"])

\* C7: a row with an image width or height of zero makes normalization fail:
\* the call returns no table with such a row, nor with an infinite or nan
\* relative size, and writes no artifact.
C7_ZeroDimensionIsRejected ==
    AppliedOnMiss
    => /\ call.out.result.kind = "ok" =>
             \A i \in 1..Len(call.out.result.value.rows) :
                /\ ~ZeroDimension(call.out.result.value.rows[i])
                /\ ~NotFinite(call.out.result.value.rows[i])
       /\ call.out.artifact # None =>
             \A i \in 1..Len(read_csv(call.out.artifact).rows) :
                ~ZeroDimension(read_csv(call.out.artifact).rows[i])

\* C4 as claimed: get_tree_item raises the missing-field error whenever no
\* child of the parent has the tag, with find_all or without.
C4_LookupRaisesWhenNothingFound ==
    (Applied("get_tree_item") /\ ~Has(call.in.parent, call.in.tag))
    => MissingFieldError(call.out)

\* C4 amended: without find_all, get_tree_item returns the first child with
\* the tag and raises the missing-field error, naming tag and file, when
\* there is none; with find_all it never raises and returns the list of all
\* children with the tag in document order, the empty list when there is none.
C4_LookupRaisesOnlyForSingleNode ==
    Applied("get_tree_item") =>
      LET parent == call.in.parent
          tag == call.in.tag
          found == Children(parent, tag)
      IN  IF call.in.find_all
          THEN /\ call.out.kind = "ok"
               /\ Len(call.out.value.items) = Cardinality(found)
               /\ \A j \in 1..Cardinality(found) :
                     call.out.value.items[j] = parent.kids[Nth(found, j)]
          ELSE IF found = {}
               THEN call.out = Raise("ValueError", <<"Could not find", tag, file_a>>)
               ELSE call.out = Ok(parent.kids[Nth(found, 1)])

\* find_all with nothing to find: the empty list is returned
C4_Witness ==
    /\ Applied("get_tree_item")
    /\ call.in.find_all
    /\ call.in.tag = "object"
    /\ ~Has(call.in.parent, "object")
    /\ call.out = Ok(List(<<>>))

\* C5: for a well-formed annotation file with N object entries parse_voc_file
\* returns N records in document order, the i-th with the i-th object's name
\* and corners and the file's path, width and height; for N = 0 the empty list.
C5_OneRecordPerObject ==
    (Applied("parse_voc_file") /\ ~FileLacksField(call.in.tree))
    => /\ call.out.kind = "ok"
       /\ Len(call.out.value) = NumObjects(call.in.tree)
       /\ \A j \in 1..NumObjects(call.in.tree) :
             call.out.value[j] = ExpectedRecord(call.in.tree, j)

\* two object entries that differ, extracted in their order
C5_Witness ==
    /\ Applied("parse_voc_file")
    /\ ~FileLacksField(call.in.tree)
    /\ NumObjects(call.in.tree) = 2
    /\ call.out.kind = "ok"
    /\ Len(call.out.value) = 2
    /\ call.out.value[1][2] = dog /\ call.out.value[2][2] = cat
    /\ call.out.value[1][5] # call.out.value[2][5]

\* the position of the first row with the name of row i
FirstRow(names, i) == Nth({ j \in 1..Len(names) : names[j] = names[i] }, 1)

\* how many distinct names have appeared up to row i
Rank(names, i) == Cardinality({ names[j] : j \in 1..i })

\* C6: adjust_frame gives the class whose first row comes j-th among the
\* distinct names the id j: the ids are 1..K, every row carries the id of its
\* class, different names have different ids and one name has one id.
C6_IdsInFirstAppearanceOrder ==
    (Applied("adjust_frame") /\ call.out.kind = "ok")
    => LET names == Column(call.in.frame, "Object Name")
           rows == call.out.value.rows
           id(i) == rows[i]["Object ID"]
       IN  /\ Len(rows) = Len(names)
           /\ \A i \in 1..Len(rows) :
                 /\ rows[i]["Object Name"] = names[i]
                 /\ id(i) = IntToFloat(Rank(names, FirstRow(names, i)))
           /\ { id(i) : i \in 1..Len(rows) } =
                 { IntToFloat(j) : j \in 1..Cardinality(Range(names)) }
           /\ \A i, j \in 1..Len(rows) : (id(i) = id(j)) <=> (names[i] = names[j])

\* a class seen first, then another, then the first again: ids 1, 2, 1
C6_Witness ==
    /\ Applied("adjust_frame") /\ call.out.kind = "ok"
    /\ Len(call.out.value.rows) = 3
    /\ call.out.value.rows[1]["Object Name"] = dog
    /\ call.out.value.rows[2]["Object Name"] = cat
    /\ call.out.value.rows[3]["Object Name"] = dog
    /\ call.out.value.rows[1]["Object ID"] = IntToFloat(1)
    /\ call.out.value.rows[2]["Object ID"] = IntToFloat(2)
    /\ call.out.value.rows[3]["Object ID"] = IntToFloat(1)

\* C8 as claimed: in every row adjust_frame returns, the relative width is
\* >= 0 when X_max >= X_min and the relative height is >= 0 when
\* Y_max >= Y_min, whatever the image width and height.
C8_RelativeSizeNonNegative ==
    (Applied("adjust_frame") /\ call.out.kind = "ok")
    => \A i \in 1..Len(call.out.value.rows) :
          LET row == call.out.value.rows[i]
          IN  /\ row["X_max"] >= row["X_min"] => FloatGeqZero(row["Relative Width"])
              /\ row["Y_max"] >= row["Y_min"] => FloatGeqZero(row["Relative Height"])

\* the sign of a float: 1, 0 or -1 (nan has none)
RatioIs(f, diff, dim) ==
    IF dim = 0
    THEN ~IsFinite(f) /\ (IsNaN(f) <=> diff = 0)
    ELSE IsFinite(f) /\ Sign(f.n) = Sign(diff) * Sign(dim) /\ f.n * dim = diff * f.d

\* C8 amended: the relative width is >= 0 when X_max >= X_min and the image
\* width is positive (the height likewise); the ratio is the exact quotient,
\* so it is negative for a proper box in an image of negative width, and for
\* a width of zero it is inf, or nan when X_max = X_min.
C8_RelativeSizeNonNegativeForPositiveImage ==
    (Applied("adjust_frame") /\ call.out.kind = "ok")
    => \A i \in 1..Len(call.out.value.rows) :
          LET row == call.out.value.rows[i]
              dx == row["X_max"] - row["X_min"]
              dy == row["Y_max"] - row["Y_min"]
          IN  /\ (dx >= 0 /\ row["Image Width"] > 0) => FloatGeqZero(row["Relative Width"])
              /\ (dy >= 0 /\ row["Image Height"] > 0) => FloatGeqZero(row["Relative Height"])
              /\ RatioIs(row["Relative Width"], dx, row["Image Width"])
              /\ RatioIs(row["Relative Height"], dy, row["Image Height"])

\* the box (10, 20, 50, 120) in an image of 100 x 200: 0.4 and 0.5
C8_Witness ==
    /\ Applied("adjust_frame") /\ call.out.kind = "ok"
    /\ \E i \in 1..Len(call.out.value.rows) :
          LET row == call.out.value.rows[i]
          IN  /\ row["Image Width"] = 100 /\ row["Image Height"] = 200
              /\ row["X_max"] - row["X_min"] = 40
              /\ row["Relative Width"] = [n |-> 2, d |-> 5]
              /\ row["Relative Height"] = [n |-> 1, d |-> 2]

====
